---- MODULE Spec2Model ----
(***************************************************************************)
(* Model of cli/download_source.go: acquisition of a Terraform source      *)
(* into a cached download directory.                                       *)
(*                                                                         *)
(* One download directory is observed.  Every acquisition in a behaviour   *)
(* either fails to resolve its source or resolves to a source descriptor   *)
(* whose DownloadDir is the observed directory.  The directory's content   *)
(* is the record fs; the acquisitions are the processes of Procs, each at  *)
(* a position pc[p] between the blocking filesystem / network operations   *)
(* of downloadTerraformSource and downloadTerraformSourceIfNecessary.      *)
(***************************************************************************)
EXTENDS Naturals, Sequences, FiniteSets, TLC

\* Largest number of *.tf files told apart in a working directory.
MaxTf == 1

\* The concurrent callers of downloadTerraformSource.
Procs == {"a1", "a2"}

----------------------------------------------------------------------------
\* Source references and their descriptors

GitURL   == [Scheme |-> "git::https", Path |-> "example/mod.git", Query |-> "ref=v1"]
LocalURL == [Scheme |-> "file", Path |-> "/abs/local/mod", Query |-> ""]
URLs     == {GitURL, LocalURL}

\* Raw references an operator can pass; the last one is malformed.
Sources == {"git::https://example/mod.git?ref=v1", "./local/mod", "::malformed"}

NoSource == "<none>"
NoFile   == "<absent>"
\* terragruntOptions.WorkingDir as the caller set it: the operator's tree.
OrigDir  == [dir |-> "/live/app", kind |-> "working"]

\* config.IsLocalSource: classification by scheme, not by existence on disk.
IsLocalSource(url) == url.Scheme = "file"

\* config.EncodeSourceVersion: the fingerprint of a canonical URL.
EncodeSourceVersion(url) ==
    CASE url = GitURL   -> "sha1(git::https|example/mod.git|ref=v1)"
      [] url = LocalURL -> "sha1(file|/abs/local/mod|)"

Fingerprints == {EncodeSourceVersion(u) : u \in URLs}

\* What a version-marker file can hold: a fingerprint, or the empty content
\* left by a write that was cut short.
MarkerContents == Fingerprints \cup {""}

\* The download directory a canonical URL is cached in.
DirOf(url) == IF IsLocalSource(url) THEN "cache/local" ELSE "cache/git"

Dirs == {DirOf(u) : u \in URLs}

\* config.ProcessTerraformSource: the descriptor of a raw reference, or an
\* error for a malformed one.
ProcessTerraformSource(source) ==
    LET url == IF source = "./local/mod" THEN LocalURL ELSE GitURL
    IN  [err                |-> source = "::malformed",
         CanonicalSourceURL |-> url,
         DownloadDir        |-> [dir |-> DirOf(url), kind |-> "download"],
         WorkingDir         |-> [dir |-> DirOf(url), kind |-> "working"],
         VersionFile        |-> [dir |-> DirOf(url), kind |-> "version"]]

----------------------------------------------------------------------------
\* Options and configuration of the caller

\* A nil pointer of the configuration.
Nil == "<nil>"

\* The commands an operator runs terragrunt with.
Commands == {"plan", "apply"}

\* The command the download hooks are registered under.
CMD_INIT_FROM_MODULE == "init-from-module"

\* terragruntOptions: --terragrunt-source ("" when not given) and the command.
Options == [Source : Sources \cup {""}, TerraformCommand : Commands]

\* terragruntConfig: the terraform block (nil or set) and its source (nil, or
\* the declared string, which can be empty).
Configs ==
    {c \in [Terraform : {Nil, "set"}, Source : Sources \cup {"", Nil}] :
        c.Terraform = Nil => c.Source = Nil}

NoOptions == [Source |-> "", TerraformCommand |-> ""]

NoConfig == [Terraform |-> Nil, Source |-> Nil]

\* getTerraformSourceUrl with the configuration looked at first.
getTerraformSourceUrlConfigFirst(terragruntOptions, terragruntConfig) ==
    IF terragruntConfig.Terraform # Nil /\ terragruntConfig.Source # Nil
    THEN terragruntConfig.Source
    ELSE terragruntOptions.Source

\* getTerraformSourceUrl: the source URL the user asked for, on the command
\* line or in the configuration, or "" if there is none.
getTerraformSourceUrl(terragruntOptions, terragruntConfig) ==
    IF terragruntOptions.Source # ""
    THEN terragruntOptions.Source
    ELSE IF terragruntConfig.Terraform # Nil /\ terragruntConfig.Source # Nil
    THEN terragruntConfig.Source
    ELSE ""

\* The options of the download with the command set on the caller's options
\* themselves.
OptionsForDownloadInPlace(terragruntOptions) ==
    LET shared == [terragruntOptions EXCEPT !.TerraformCommand = CMD_INIT_FROM_MODULE]
    IN  [caller |-> shared, download |-> shared]

\* terragruntOptions.Clone, and the command set on the clone: the caller's
\* options and the options of the download afterwards.
OptionsForDownload(terragruntOptions) ==
    [caller   |-> terragruntOptions,
     download |-> [terragruntOptions EXCEPT !.TerraformCommand = CMD_INIT_FROM_MODULE]]

NoClone == [TerraformCommand |-> "", hooks |-> {}]

----------------------------------------------------------------------------
VARIABLES
    dir,      \* the observed download directory
    fs,       \* its content: [dl, wd, marker, tf, tree]
    pc,       \* position of each acquisition
    src,      \* raw source reference of each acquisition
    force,    \* terragruntOptions.SourceUpdate of each acquisition
    wdPtr,    \* terragruntOptions.WorkingDir of each acquisition's caller
    events,   \* what each acquisition has done so far, in order
    reads,    \* how the reads of each acquisition's cache check went
    seen,     \* what each acquisition's cache check returned
    clean,    \* the tree was not removed under this acquisition's fetch
    prev,     \* how the acquisition that returned last ended
    after,    \* prev, and the *.tf files there were, when each acquisition started
    heap,     \* the backend maps: getter.Getters and each client's Getters
    writers,  \* the acquisitions that have written each map
    opts,     \* terragruntOptions of each acquisition's caller: Source, TerraformCommand
    conf,     \* terragruntConfig of each acquisition's caller: the terraform block
    clone     \* terragruntOptionsForDownload: its command, and the commands hooks ran under

vars == <<dir, fs, pc, src, force, wdPtr, events, reads, seen, clean, prev, after,
          heap, writers, opts, conf, clone>>

Finished == {"idle", "done", "failed", "aborted"}

TreeStates == {"none", "partial", "complete"}

\* Contents a download directory can have.
FsStates ==
    {f \in [dl : BOOLEAN, wd : BOOLEAN, marker : MarkerContents \cup {NoFile},
            tf : 0..MaxTf, tree : TreeStates] :
        /\ f.wd => f.dl
        /\ f.marker # NoFile => f.dl
        /\ f.tf > 0 => f.wd
        /\ f.tree # "none" => f.dl
        /\ f.tree = "none" => (~f.wd /\ f.marker = NoFile)}

Removed == [dl |-> FALSE, wd |-> FALSE, marker |-> NoFile, tf |-> 0, tree |-> "none"]

TerraformSource(p) == ProcessTerraformSource(src[p])

\* util.FileExists on a path of the observed directory.
FileExists(path) ==
    /\ path.dir = dir
    /\ CASE path.kind = "download" -> fs.dl
         [] path.kind = "working"  -> fs.wd
         [] path.kind = "version"  -> fs.marker # NoFile

\* filepath.Glob("<WorkingDir>/*.tf"): the number of matches.
GlobTf(path) == IF FileExists(path) THEN fs.tf ELSE 0

\* TerraformSource.ReadVersionFile
ReadVersionFile(ts) == fs.marker

----------------------------------------------------------------------------
\* The cache oracle

\* Outcomes of the oracle's two fallible reads: the glob and the marker read.
IoOutcomes == {"ok", "globErr", "readErr"}

Answer(latest, err) == [latest |-> latest, err |-> err]

\* alreadyHaveLatestCode without its exemption of local sources.
alreadyHaveLatestCodeCachingLocal(ts, io) ==
    IF \/ ~FileExists(ts.DownloadDir)
       \/ ~FileExists(ts.WorkingDir)
       \/ ~FileExists(ts.VersionFile)
    THEN Answer(FALSE, FALSE)
    ELSE IF io = "globErr" THEN Answer(FALSE, TRUE)
    ELSE IF GlobTf(ts.WorkingDir) = 0 THEN Answer(FALSE, FALSE)
    ELSE IF io = "readErr" THEN Answer(FALSE, TRUE)
    ELSE Answer(ReadVersionFile(ts) = EncodeSourceVersion(ts.CanonicalSourceURL), FALSE)

\* alreadyHaveLatestCode with the comparison of the versions inverted.
alreadyHaveLatestCodeInverted(ts, io) ==
    IF \/ IsLocalSource(ts.CanonicalSourceURL)
       \/ ~FileExists(ts.DownloadDir)
       \/ ~FileExists(ts.WorkingDir)
       \/ ~FileExists(ts.VersionFile)
    THEN Answer(FALSE, FALSE)
    ELSE IF io = "globErr" THEN Answer(FALSE, TRUE)
    ELSE IF GlobTf(ts.WorkingDir) = 0 THEN Answer(FALSE, FALSE)
    ELSE IF io = "readErr" THEN Answer(FALSE, TRUE)
    ELSE Answer(ReadVersionFile(ts) # EncodeSourceVersion(ts.CanonicalSourceURL), FALSE)

\* alreadyHaveLatestCode without the look at the *.tf files.
alreadyHaveLatestCodeTrustingEmptyDir(ts, io) ==
    IF \/ IsLocalSource(ts.CanonicalSourceURL)
       \/ ~FileExists(ts.DownloadDir)
       \/ ~FileExists(ts.WorkingDir)
       \/ ~FileExists(ts.VersionFile)
    THEN Answer(FALSE, FALSE)
    ELSE IF io = "readErr" THEN Answer(FALSE, TRUE)
    ELSE Answer(ReadVersionFile(ts) = EncodeSourceVersion(ts.CanonicalSourceURL), FALSE)

\* alreadyHaveLatestCode: (true, nil) when the source of this exact version
\* is already in the download directory.
alreadyHaveLatestCode(ts, io) ==
    IF \/ IsLocalSource(ts.CanonicalSourceURL)
       \/ ~FileExists(ts.DownloadDir)
       \/ ~FileExists(ts.WorkingDir)
       \/ ~FileExists(ts.VersionFile)
    THEN Answer(FALSE, FALSE)
    ELSE IF io = "globErr" THEN Answer(FALSE, TRUE)
    ELSE IF GlobTf(ts.WorkingDir) = 0 THEN Answer(FALSE, FALSE)
    ELSE IF io = "readErr" THEN Answer(FALSE, TRUE)
    ELSE Answer(ReadVersionFile(ts) = EncodeSourceVersion(ts.CanonicalSourceURL), FALSE)

----------------------------------------------------------------------------
\* The backend maps

GlobalMap == "getter.Getters"

\* go-getter's default backends, by protocol.
DefaultGetters ==
    [name \in {"file", "git", "hg", "s3", "http", "https"} |->
        CASE name = "file"  -> "getter.FileGetter"
          [] name = "git"   -> "getter.GitGetter"
          [] name = "hg"    -> "getter.HgGetter"
          [] name = "s3"    -> "getter.S3Getter"
          [] name = "http"  -> "getter.HttpGetter"
          [] name = "https" -> "getter.HttpGetter"]

EmptyMap == [name \in {} |-> ""]

\* copyFiles replacing the "file" getter in getter.Getters itself and handing
\* that map to the client.
copyFilesInPlace(h, p) ==
    LET shared == [h[GlobalMap] EXCEPT !["file"] = "FileCopyGetter"]
    IN  [h EXCEPT ![GlobalMap] = shared, ![p] = shared]

\* copyFiles, the client option handed to getter.GetAny: the heap after it
\* has run on the client of acquisition p.
copyFiles(h, p) ==
    [h EXCEPT ![p] = [getterName \in DOMAIN h[GlobalMap] |->
                        IF getterName = "file" THEN "FileCopyGetter"
                        ELSE h[GlobalMap][getterName]]]

\* The maps whose content a step of p changes are written by p.
Written(p) ==
    writers' = [m \in DOMAIN heap |->
                  IF heap'[m] # heap[m] THEN writers[m] \cup {p} ELSE writers[m]]

----------------------------------------------------------------------------
\* Steps of one acquisition

Log(p, e) == events' = [events EXCEPT ![p] = Append(@, e)]

\* The acquisition moves on; when it returns or dies, how it ended is kept:
\* "ok", "fetch" (during the hook-wrapped download), "write" (at the write
\* of the version file) or "other".
Goto(p, where, phase) ==
    /\ pc' = [pc EXCEPT ![p] = where]
    /\ prev' = CASE where = "done"                 -> "ok"
                 [] where \in {"failed", "aborted"} -> phase
                 [] OTHER                           -> prev

\* The frames of the calls that have returned are gone when calls arrive
\* one at a time; they stay while calls run in parallel.
Frames(f, empty, keep) == IF keep THEN f ELSE [q \in Procs |-> empty]

NoAnswer == Answer(FALSE, FALSE)

NotYet == [prev |-> "none", tf |-> 0, command |-> ""]

\* AfterResolve without the SourceUpdate branch.
AfterResolveNoUpdate(ts, update) == IF ts.err THEN "failed" ELSE "check"

\* Where downloadTerraformSource goes after config.ProcessTerraformSource.
AfterResolve(ts, update) ==
    IF ts.err THEN "failed" ELSE IF update THEN "invalidate" ELSE "check"

\* The caller has selected a source: downloadTerraformSource is called with
\* it, and the source is resolved.
Begin(p, o, c, update, keep) ==
    /\ pc[p] \in Finished
    /\ getTerraformSourceUrl(o, c) # ""
    /\ LET ts == ProcessTerraformSource(getTerraformSourceUrl(o, c))
       IN  /\ ts.err \/ ts.DownloadDir.dir = dir
           /\ pc' = [Frames(pc, "idle", keep) EXCEPT ![p] = AfterResolve(ts, update)]
           /\ prev' = IF AfterResolve(ts, update) = "failed" THEN "other" ELSE prev
    /\ src' = [Frames(src, NoSource, keep) EXCEPT ![p] = getTerraformSourceUrl(o, c)]
    /\ opts' = [Frames(opts, NoOptions, keep) EXCEPT ![p] = o]
    /\ conf' = [Frames(conf, NoConfig, keep) EXCEPT ![p] = c]
    /\ clone' = [Frames(clone, NoClone, keep) EXCEPT ![p] = NoClone]
    /\ force' = [Frames(force, FALSE, keep) EXCEPT ![p] = update]
    /\ wdPtr' = [Frames(wdPtr, OrigDir, keep) EXCEPT ![p] = OrigDir]
    /\ events' = [Frames(events, <<>>, keep) EXCEPT ![p] = <<>>]
    /\ reads' = [Frames(reads, "ok", keep) EXCEPT ![p] = "ok"]
    /\ seen' = [Frames(seen, NoAnswer, keep) EXCEPT ![p] = NoAnswer]
    /\ after' = [Frames(after, NotYet, keep) EXCEPT
                   ![p] = [prev |-> prev, tf |-> fs.tf, command |-> o.TerraformCommand]]
    /\ heap' = [heap EXCEPT ![p] = EmptyMap]
    /\ UNCHANGED <<dir, fs, clean, writers>>

\* Calls arrive one at a time, with the source given on the command line.
Start(p) ==
    /\ \A q \in Procs : pc[q] \in Finished
    /\ \E o \in Options, update \in BOOLEAN : Begin(p, o, NoConfig, update, FALSE)

\* The command of an xxx-all run.
AllCommand == "apply"

\* Calls arrive from many goroutines, one call each, all of one xxx-all
\* command, each with the source its module's configuration declares.
StartConcurrently(p) ==
    /\ pc[p] = "idle"
    /\ \E s \in Sources, update \in BOOLEAN :
         Begin(p, [Source |-> "", TerraformCommand |-> AllCommand],
               [Terraform |-> "set", Source |-> s], update, TRUE)

\* What a failed os.RemoveAll can leave behind.
HalfRemoved ==
    {f \in FsStates :
        /\ f.dl
        /\ f.wd => fs.wd
        /\ f.tf <= fs.tf
        /\ f.marker \in {fs.marker, NoFile}
        /\ f.tree = IF fs.tree = "none" THEN "none"
                    ELSE IF f = fs THEN fs.tree ELSE "partial"}

\* AfterRemoveAll not looking at the error of os.RemoveAll.
AfterRemoveAllIgnoringErr(err) == "check"

\* Where downloadTerraformSourceIfNecessary goes when os.RemoveAll returns.
AfterRemoveAll(err) == IF err THEN "failed" ELSE "check"

\* SourceUpdate is set: os.RemoveAll(DownloadDir).  The files a fetch in
\* progress has written so far go with the directory.
Invalidate(p) ==
    /\ pc[p] = "invalidate"
    /\ \/ /\ fs' = Removed
          /\ Log(p, "removeAll")
          /\ Goto(p, AfterRemoveAll(FALSE), "other")
       \/ /\ fs.dl
          /\ fs' \in HalfRemoved
          /\ Log(p, "removeAllFailed")
          /\ Goto(p, AfterRemoveAll(TRUE), "other")
    /\ clean' = [q \in Procs |-> FALSE]
    /\ UNCHANGED <<dir, src, force, wdPtr, reads, seen, after, heap, writers,
                   opts, conf, clone>>

\* AfterCheck writing the version file again when the code is the latest.
AfterCheckRewritingMarker(answer) ==
    IF answer.err THEN "failed" ELSE IF answer.latest THEN "write" ELSE "before"

\* AfterCheck going on to the download when the oracle has failed.
AfterCheckSwallowingErr(answer) == IF answer.latest THEN "overlay" ELSE "before"

\* AfterCheck returning at once when the code is the latest.
AfterCheckSkippingOverlay(answer) ==
    IF answer.err THEN "failed" ELSE IF answer.latest THEN "done" ELSE "before"

\* AfterCheck downloading whatever the oracle answers.
AfterCheckAlwaysDownload(answer) == IF answer.err THEN "failed" ELSE "before"

\* Where downloadTerraformSourceIfNecessary goes on the oracle's answer.
AfterCheck(answer) ==
    IF answer.err THEN "failed" ELSE IF answer.latest THEN "overlay" ELSE "before"

\* alreadyHaveLatestCode is consulted.
CheckCache(p) ==
    /\ pc[p] = "check"
    /\ \E io \in IoOutcomes :
         LET answer == alreadyHaveLatestCode(TerraformSource(p), io)
         IN  /\ reads' = [reads EXCEPT ![p] = io]
             /\ seen' = [seen EXCEPT ![p] = answer]
             /\ Goto(p, AfterCheck(answer), "other")
             /\ IF AfterCheck(answer) = "before"
                THEN LET o == OptionsForDownload(opts[p])
                     IN  /\ opts' = [opts EXCEPT ![p] = o.caller]
                         /\ clone' = [clone EXCEPT ![p].TerraformCommand =
                                                      o.download.TerraformCommand]
                ELSE UNCHANGED <<opts, clone>>
    /\ Log(p, "check")
    /\ UNCHANGED <<dir, fs, src, force, wdPtr, clean, after, heap, writers, conf>>

----------------------------------------------------------------------------
\* The hook-wrapped download

\* runActionWithHooks: before hooks, the action, after hooks; the first
\* failure is the error of the whole.
HookStage(stage, err) ==
    IF err THEN "downloadErr"
    ELSE CASE stage = "before" -> "get"
           [] stage = "get"    -> "after"
           [] stage = "after"  -> "downloaded"

\* AfterDownload returning before the version file is written.
AfterDownloadNoWrite(stage) ==
    CASE stage = "downloadErr" -> "failed"
      [] stage = "downloaded"  -> "overlay"
      [] OTHER                 -> stage

\* AfterDownload not looking at downloadErr.
AfterDownloadIgnoringErr(stage) ==
    CASE stage \in {"downloadErr", "downloaded"} -> "write"
      [] OTHER                                   -> stage

\* Where downloadTerraformSourceIfNecessary goes when runActionWithHooks returns.
AfterDownload(stage) ==
    CASE stage = "downloadErr" -> "failed"
      [] stage = "downloaded"  -> "write"
      [] OTHER                 -> stage

Stage(p, stage, err) == Goto(p, AfterDownload(HookStage(stage, err)), "fetch")

BeforeHooks(p) ==
    /\ pc[p] = "before"
    /\ \E err \in BOOLEAN :
         /\ Stage(p, "before", err)
         /\ Log(p, IF err THEN "beforeFailed" ELSE "before")
    /\ clone' = [clone EXCEPT ![p].hooks = @ \cup {clone[p].TerraformCommand}]
    /\ UNCHANGED <<dir, fs, src, force, wdPtr, reads, seen, clean, after, heap, writers,
                   opts, conf>>

\* What a fetch in progress can have put into the download directory.
Fetching ==
    {f \in FsStates : f.dl /\ f.marker = fs.marker /\ f.tree = "partial"}

\* downloadSource calls getter.GetAny: the client is set up by copyFiles and
\* the backend starts to write, or fails before it has written anything.
Get(p) ==
    /\ pc[p] = "get"
    /\ heap' = copyFiles(heap, p)
    /\ Written(p)
    /\ \/ /\ fs' \in Fetching
          /\ pc' = [pc EXCEPT ![p] = "getting"]
          /\ Log(p, "get")
          /\ clean' = [clean EXCEPT ![p] = TRUE]
          /\ UNCHANGED prev
       \/ /\ Stage(p, "get", TRUE)
          /\ Log(p, "getFailed")
          /\ UNCHANGED <<fs, clean>>
    /\ UNCHANGED <<dir, src, force, wdPtr, reads, seen, after, opts, conf, clone>>

\* What a fetch that ran to its end leaves in the download directory.
Fetched(p) ==
    {f \in FsStates :
        /\ f.dl
        /\ f.marker = fs.marker
        /\ f.tree = IF clean[p] THEN "complete" ELSE "partial"}

\* getter.GetAny returns.
GetReturns(p) ==
    /\ pc[p] = "getting"
    /\ \/ /\ fs' \in Fetched(p)
          /\ Stage(p, "get", FALSE)
          /\ Log(p, "fetched")
       \/ /\ fs' \in Fetching
          /\ Stage(p, "get", TRUE)
          /\ Log(p, "fetchFailed")
    /\ heap' = [heap EXCEPT ![p] = EmptyMap]
    /\ clean' = [clean EXCEPT ![p] = FALSE]
    /\ UNCHANGED <<dir, src, force, wdPtr, reads, seen, after, writers, opts, conf, clone>>

AfterHooks(p) ==
    /\ pc[p] = "after"
    /\ \E err \in BOOLEAN :
         /\ Stage(p, "after", err)
         /\ Log(p, IF err THEN "afterFailed" ELSE "after")
    /\ clone' = [clone EXCEPT ![p].hooks = @ \cup {clone[p].TerraformCommand}]
    /\ UNCHANGED <<dir, fs, src, force, wdPtr, reads, seen, clean, after, heap, writers,
                   opts, conf>>

----------------------------------------------------------------------------
\* The marker, the overlay and the return

\* TerraformSource.WriteVersionFile: the content it writes.
WriteVersionFile(ts) == EncodeSourceVersion(ts.CanonicalSourceURL)

\* AfterWrite not looking at the error of WriteVersionFile.
AfterWriteIgnoringErr(err) == "overlay"

\* Where downloadTerraformSource goes when WriteVersionFile returns.
AfterWrite(err) == IF err THEN "failed" ELSE "overlay"

\* What a failed write of the version file can leave: the file as it was,
\* cut short, or with all of its new content.
HalfWritten(p) ==
    {fs} \cup (IF fs.dl
               THEN {[fs EXCEPT !.marker = ""],
                     [fs EXCEPT !.marker = WriteVersionFile(TerraformSource(p))]}
               ELSE {})

\* The download has succeeded: the version file is written.  The write fails
\* when the directory is gone, and can fail after the file was opened.
WriteVersion(p) ==
    /\ pc[p] = "write"
    /\ \/ /\ fs.dl
          /\ fs' = [fs EXCEPT !.marker = WriteVersionFile(TerraformSource(p))]
          /\ Goto(p, AfterWrite(FALSE), "write")
          /\ Log(p, "marker")
       \/ /\ fs' \in HalfWritten(p)
          /\ Goto(p, AfterWrite(TRUE), "write")
          /\ Log(p, "markerFailed")
    /\ UNCHANGED <<dir, src, force, wdPtr, reads, seen, clean, after, heap, writers,
                   opts, conf, clone>>

\* What util.CopyFolderContents into the working directory can leave: files
\* are added to and pruned from the working directory, nothing else changes
\* (a directory that holds the operator's files alone is no complete tree).
Overlaid ==
    {f \in FsStates :
        /\ f.dl /\ f.wd
        /\ f.marker = fs.marker
        /\ f.tree = IF fs.tree = "none" THEN "partial" ELSE fs.tree}

\* WorkingDirAfter with the working directory set before the copy is checked.
WorkingDirAfterEarly(p, err) == TerraformSource(p).WorkingDir

\* terragruntOptions.WorkingDir when downloadTerraformSource returns.
WorkingDirAfter(p, err) ==
    IF err THEN wdPtr[p] ELSE TerraformSource(p).WorkingDir

\* The operator's files are copied over the source, and the caller's
\* working directory is set to the result.
Overlay(p) ==
    /\ pc[p] = "overlay"
    /\ \E err \in BOOLEAN :
         /\ fs' \in IF err THEN Overlaid \cup {fs} ELSE Overlaid
         /\ wdPtr' = [wdPtr EXCEPT ![p] = WorkingDirAfter(p, err)]
         /\ Goto(p, IF err THEN "failed" ELSE "done", "other")
         /\ Log(p, IF err THEN "overlayFailed" ELSE "overlay")
    /\ UNCHANGED <<dir, src, force, reads, seen, clean, after, heap, writers,
                   opts, conf, clone>>

\* The process is killed while the hook-wrapped download runs.
Abort(p) ==
    /\ pc[p] \in {"before", "get", "getting", "after"}
    /\ Goto(p, "aborted", "fetch")
    /\ Log(p, "abort")
    /\ heap' = [heap EXCEPT ![p] = EmptyMap]
    /\ clean' = [clean EXCEPT ![p] = FALSE]
    /\ UNCHANGED <<dir, fs, src, force, wdPtr, reads, seen, after, writers,
                   opts, conf, clone>>

----------------------------------------------------------------------------
Init ==
    /\ dir \in Dirs
    /\ fs \in FsStates
    /\ pc = [p \in Procs |-> "idle"]
    /\ src = [p \in Procs |-> NoSource]
    /\ force = [p \in Procs |-> FALSE]
    /\ wdPtr = [p \in Procs |-> OrigDir]
    /\ events = [p \in Procs |-> <<>>]
    /\ reads = [p \in Procs |-> "ok"]
    /\ seen = [p \in Procs |-> NoAnswer]
    /\ clean = [p \in Procs |-> FALSE]
    /\ prev = "none"
    /\ after = [p \in Procs |-> NotYet]
    /\ heap = [m \in {GlobalMap} \cup Procs |->
                 IF m = GlobalMap THEN DefaultGetters ELSE EmptyMap]
    /\ writers = [m \in {GlobalMap} \cup Procs |-> {}]
    /\ opts = [p \in Procs |-> NoOptions]
    /\ conf = [p \in Procs |-> NoConfig]
    /\ clone = [p \in Procs |-> NoClone]

Step(p) ==
    \/ Invalidate(p)
    \/ CheckCache(p)
    \/ BeforeHooks(p)
    \/ Get(p)
    \/ GetReturns(p)
    \/ AfterHooks(p)
    \/ WriteVersion(p)
    \/ Overlay(p)
    \/ Abort(p)

\* One acquisition at a time.
Next == \E p \in Procs : Start(p) \/ Step(p)

Spec == Init /\ [][Next]_vars

\* Acquisitions in parallel, as in the xxx-all commands.
NextConcurrent == \E p \in Procs : StartConcurrently(p) \/ Step(p)

SpecConcurrent == Init /\ [][NextConcurrent]_vars

----------------------------------------------------------------------------
\* Source selection on its own: the caller's options and configuration are
\* any there can be, and getTerraformSourceUrl is applied to them.

InitSelect ==
    /\ dir \in Dirs
    /\ fs = Removed
    /\ pc = [p \in Procs |-> "idle"]
    /\ src = [p \in Procs |-> NoSource]
    /\ force = [p \in Procs |-> FALSE]
    /\ wdPtr = [p \in Procs |-> OrigDir]
    /\ events = [p \in Procs |-> <<>>]
    /\ reads = [p \in Procs |-> "ok"]
    /\ seen = [p \in Procs |-> NoAnswer]
    /\ clean = [p \in Procs |-> FALSE]
    /\ prev = "none"
    /\ after = [p \in Procs |-> NotYet]
    /\ heap = [m \in {GlobalMap} \cup Procs |->
                 IF m = GlobalMap THEN DefaultGetters ELSE EmptyMap]
    /\ writers = [m \in {GlobalMap} \cup Procs |-> {}]
    /\ opts \in [Procs -> Options]
    /\ conf \in [Procs -> Configs]
    /\ clone = [p \in Procs |-> NoClone]

Select(p) ==
    /\ src[p] = NoSource
    /\ src' = [src EXCEPT ![p] = getTerraformSourceUrl(opts[p], conf[p])]
    /\ UNCHANGED <<dir, fs, pc, force, wdPtr, events, reads, seen, clean, prev, after,
                   heap, writers, opts, conf, clone>>

NextSelect == \E p \in Procs : Select(p)

SpecSelect == InitSelect /\ [][NextSelect]_vars

TypeOK ==
    /\ dir \in Dirs
    /\ fs \in FsStates
    /\ src \in [Procs -> Sources \cup {NoSource}]
    /\ force \in [Procs -> BOOLEAN]
    /\ clean \in [Procs -> BOOLEAN]
    /\ prev \in {"none", "ok", "fetch", "write", "other"}

----------------------------------------------------------------------------
\* Vocabulary of the properties

Has(p, e) == \E i \in DOMAIN events[p] : events[p][i] = e

Index(p, e) == IF Has(p, e) THEN CHOOSE i \in DOMAIN events[p] : events[p][i] = e ELSE 0

Count(p, e) == Cardinality({i \in DOMAIN events[p] : events[p][i] = e})

LastEvent(p) == IF events[p] = <<>> THEN "" ELSE events[p][Len(events[p])]

Resolved(p) == src[p] \in Sources /\ ~TerraformSource(p).err

Url(p) == TerraformSource(p).CanonicalSourceURL

IsLocal(p) == Resolved(p) /\ IsLocalSource(Url(p))

IsRemote(p) == Resolved(p) /\ ~IsLocalSource(Url(p))

\* The download directory has all that a cache hit on p's source asks for.
CacheHolds(p) ==
    /\ fs.dl /\ fs.wd /\ fs.marker # NoFile
    /\ fs.tf >= 1
    /\ fs.marker = EncodeSourceVersion(Url(p))

\* The cache check is the last thing p did: fs is what the check saw.
JustChecked(p) == LastEvent(p) = "check"

----------------------------------------------------------------------------
\* C1: for a source whose canonical URL is a local path the cache oracle
\* answers "not the latest code", without error, whatever the download
\* directory, the working directory, the version file and the *.tf files
\* are; so an acquisition of a local source never reaches the overlay or
\* returns success without having fetched, also right after a successful one.
C1_LocalAlwaysFetches ==
    \A p \in Procs :
        IsLocal(p) =>
            /\ \A io \in IoOutcomes :
                 alreadyHaveLatestCode(TerraformSource(p), io) = Answer(FALSE, FALSE)
            /\ Has(p, "check") => seen[p] = Answer(FALSE, FALSE)
            /\ JustChecked(p) => pc[p] = "before"
            /\ pc[p] \in {"overlay", "done"} => Has(p, "get")

\* A local source acquired right after a successful acquisition: everything
\* a cache hit asks for is there, and the oracle has sent it to the download.
C1_Witness ==
    \E p \in Procs :
        /\ IsLocal(p) /\ ~force[p] /\ after[p].prev = "ok"
        /\ JustChecked(p) /\ CacheHolds(p)
        /\ pc[p] = "before"

\* C2: for a remote source, when the download directory, the working
\* directory and the version file exist, the working directory holds at
\* least one *.tf file and the version file holds the fingerprint of the
\* canonical URL (the oracle's reads succeeding), the oracle answers "latest
\* code, no error" and the acquisition goes to the overlay without download.
C2_RemoteCacheHit ==
    \A p \in Procs :
        (IsRemote(p) /\ JustChecked(p) /\ reads[p] = "ok" /\ CacheHolds(p)) =>
            /\ seen[p] = Answer(TRUE, FALSE)
            /\ pc[p] = "overlay"

C2_Witness ==
    \E p \in Procs :
        /\ IsRemote(p) /\ JustChecked(p) /\ reads[p] = "ok" /\ CacheHolds(p)
        /\ seen[p] = Answer(TRUE, FALSE)

\* C3: with SourceUpdate set, the download directory is removed before the
\* oracle is consulted: the oracle finds no download directory and answers
\* "not the latest code", the acquisition goes on to the download, and none
\* reaches the overlay or returns success without a completed fetch.
C3_ForcedUpdate ==
    \A p \in Procs :
        (Resolved(p) /\ force[p]) =>
            /\ Has(p, "check") =>
                 /\ events[p][1] = "removeAll"
                 /\ Index(p, "check") = 2
                 /\ seen[p] = Answer(FALSE, FALSE)
            /\ JustChecked(p) => (fs = Removed /\ pc[p] = "before")
            /\ pc[p] \in {"overlay", "done"} => (Has(p, "get") /\ Has(p, "fetched"))

\* A forced acquisition of a source that had just been acquired with
\* success has fetched again and returned.
C3_Witness ==
    \E p \in Procs :
        /\ Resolved(p) /\ force[p] /\ after[p].prev = "ok"
        /\ pc[p] = "done" /\ Has(p, "removeAll") /\ Has(p, "fetched")

\* C4: when an acquisition has returned success, by the download or by the
\* skip path, the version file exists and holds the fingerprint of the
\* acquisition's canonical URL.
C4_MarkerAfterSuccess ==
    \A p \in Procs :
        pc[p] = "done" =>
            /\ fs.marker # NoFile
            /\ fs.marker = EncodeSourceVersion(Url(p))

C4_Witness ==
    \E p \in Procs :
        /\ pc[p] = "done" /\ Has(p, "marker")
        /\ fs.marker = EncodeSourceVersion(Url(p))

\* C5 as stated: after a successful acquisition, a second acquisition of the
\* same reference without SourceUpdate invokes no fetch backend.
C5_SecondNeverFetches ==
    \A p \in Procs :
        (Resolved(p) /\ ~force[p] /\ after[p].prev = "ok") =>
            ~(Has(p, "get") \/ Has(p, "getFailed"))

\* C5, amended: after a successful acquisition of a remote reference that
\* has left at least one *.tf file in the working directory, a second
\* acquisition of the same reference without SourceUpdate runs no download
\* hook and invokes no fetch backend.
C5_SecondRemoteSkips ==
    \A p \in Procs :
        (IsRemote(p) /\ ~force[p] /\ after[p].prev = "ok" /\ after[p].tf >= 1) =>
            /\ ~(Has(p, "get") \/ Has(p, "getFailed"))
            /\ ~(Has(p, "before") \/ Has(p, "beforeFailed"))
            /\ pc[p] \notin {"before", "get", "getting", "after", "write"}

C5_Witness ==
    \E p \in Procs :
        /\ IsRemote(p) /\ ~force[p] /\ after[p].prev = "ok" /\ after[p].tf >= 1
        /\ pc[p] = "done" /\ events[p] = <<"check", "overlay">>

\* The events of the download, in the order the code runs them.
Order == <<"check", "before", "get", "fetched", "after", "marker">>

IsOverlay(e) == e \in {"overlay", "overlayFailed"}

\* C6: within one acquisition the cache check comes before the fetch, the
\* fetch with its before and after hooks before the marker write, and the
\* marker write before the overlay; each happens at most once; the marker is
\* written only after the fetch and the after hooks have succeeded, and the
\* overlay runs only after the marker write, or after a cache hit.
C6_Ordering ==
    \A p \in Procs :
        /\ \A i \in 1..Len(Order) : Count(p, Order[i]) <= 1
        /\ \A i \in 2..Len(Order) :
             Has(p, Order[i]) =>
                /\ Has(p, Order[i - 1])
                /\ Index(p, Order[i - 1]) < Index(p, Order[i])
        /\ \A e \in {"beforeFailed", "getFailed"} : Has(p, e) => Has(p, "check")
        /\ Has(p, "fetchFailed") => Has(p, "get")
        /\ Has(p, "afterFailed") => Has(p, "fetched")
        /\ Has(p, "markerFailed") => Has(p, "after")
        /\ \A i \in DOMAIN events[p] :
             IsOverlay(events[p][i]) =>
                /\ i = Len(events[p])
                /\ \/ Has(p, "marker") /\ Index(p, "marker") = i - 1
                   \/ /\ seen[p] = Answer(TRUE, FALSE)
                      /\ Index(p, "check") = i - 1
        /\ pc[p] = "write" => LastEvent(p) = "after"
        /\ pc[p] = "overlay" => LastEvent(p) \in {"marker", "check"}

C6_Witness ==
    \E p \in Procs :
        /\ pc[p] = "done"
        /\ events[p] = <<"check", "before", "get", "fetched", "after", "marker", "overlay">>

\* C7 as stated: when the acquisition before this one failed or was aborted
\* during the fetch, the oracle of this one answers "not the latest code".
C7_NoHitAfterBrokenFetch ==
    \A p \in Procs :
        (Resolved(p) /\ after[p].prev = "fetch" /\ Has(p, "check")) =>
            ~seen[p].latest

\* C8: terragruntOptions.WorkingDir is the source's working directory when
\* the acquisition has returned success, and the value the caller gave it
\* at every other point, every failure included.
C8_WorkingDirPointer ==
    \A p \in Procs :
        src[p] # NoSource =>
            wdPtr[p] = IF pc[p] = "done" THEN TerraformSource(p).WorkingDir ELSE OrigDir

C8_Witness ==
    \E p \in Procs :
        /\ pc[p] = "done"
        /\ wdPtr[p] = TerraformSource(p).WorkingDir
        /\ wdPtr[p] # OrigDir

\* C9 as stated, for a remote source and runs in which no step fails: with
\* acquisitions running in parallel on one download directory, whenever no
\* fetch is in progress and the version file holds the fingerprint an
\* acquisition wrote after its fetch, the download directory holds the
\* complete tree of a successful fetch.
C9_MarkerMeansCompleteTree ==
    \A p \in Procs :
        ( /\ IsRemote(p)
          /\ Has(p, "marker")
          /\ fs.marker = EncodeSourceVersion(Url(p))
          /\ \A q \in Procs : pc[q] \notin {"getting", "failed", "aborted"} ) =>
            fs.tree = "complete"

\* The map a client gets from copyFiles.
ClientGetters ==
    [name \in DOMAIN DefaultGetters |->
        IF name = "file" THEN "FileCopyGetter" ELSE DefaultGetters[name]]

\* C10: with acquisitions running in parallel, getter.Getters is never
\* written; during a fetch the client's map has the keys of getter.Getters
\* and its values, but for "file", which is the copying getter; no map is
\* written by two acquisitions.
C10_FreshGetterMaps ==
    /\ heap[GlobalMap] = DefaultGetters
    /\ writers[GlobalMap] = {}
    /\ \A p \in Procs :
         /\ writers[p] \subseteq {p}
         /\ pc[p] = "getting" =>
              /\ DOMAIN heap[p] = DOMAIN heap[GlobalMap]
              /\ heap[p] = ClientGetters
              /\ heap[p]["file"] # heap[GlobalMap]["file"]

\* Two fetches in progress at once, each with the map it has built.
C10_Witness ==
    \E p, q \in Procs :
        /\ p # q
        /\ pc[p] = "getting" /\ pc[q] = "getting"
        /\ writers[p] = {p} /\ writers[q] = {q}
        /\ heap[p] = ClientGetters /\ heap[q] = ClientGetters

\* The download hooks of p have run, or failed.
HooksRan(p) ==
    \E e \in {"before", "beforeFailed", "after", "afterFailed"} : Has(p, e)

\* C11: the hooks of the download run under the command init-from-module,
\* set on a clone of the options; the TerraformCommand of the caller's own
\* options is the command the caller gave, which is not init-from-module,
\* at every point of the acquisition and after it, however it ends.
C11_CallerCommandKept ==
    \A p \in Procs :
        src[p] # NoSource =>
            /\ opts[p].TerraformCommand = after[p].command
            /\ opts[p].TerraformCommand \in Commands
            /\ opts[p].TerraformCommand # CMD_INIT_FROM_MODULE
            /\ clone[p].hooks \subseteq {CMD_INIT_FROM_MODULE}
            /\ HooksRan(p) => clone[p].hooks = {CMD_INIT_FROM_MODULE}
            /\ pc[p] \in {"before", "get", "getting", "after"} =>
                 clone[p].TerraformCommand = CMD_INIT_FROM_MODULE

\* The after hooks have failed under init-from-module and the acquisition
\* has returned the error: the caller's command is the one it gave.
C11_Witness ==
    \E p \in Procs :
        /\ pc[p] = "failed" /\ Has(p, "afterFailed")
        /\ clone[p].hooks = {CMD_INIT_FROM_MODULE}
        /\ opts[p].TerraformCommand = "plan"
        /\ after[p].command = "plan"

\* The source the configuration declares: none without a terraform block or
\* without a source in it; an empty source is none.
Declared(c) == IF c.Terraform # Nil /\ c.Source # Nil THEN c.Source ELSE ""

\* C12: getTerraformSourceUrl returns a non-empty Source of the options
\* whatever the configuration declares; it returns the source the
\* configuration declares only when the Source of the options is empty; it
\* returns "" exactly when the Source of the options is empty and the
\* configuration declares no source.
C12_SourceSelection ==
    \A p \in Procs :
        src[p] # NoSource =>
            /\ opts[p].Source # "" => src[p] = opts[p].Source
            /\ opts[p].Source = "" => src[p] = Declared(conf[p])
            /\ (src[p] # opts[p].Source) => (opts[p].Source = "" /\ src[p] = conf[p].Source)
            /\ src[p] = "" <=> (opts[p].Source = "" /\ Declared(conf[p]) = "")
            /\ (opts[p].Source = "" /\ (conf[p].Terraform = Nil \/ conf[p].Source = Nil))
                 => src[p] = ""

\* An override and a different declared source: the override is selected.
C12_Witness ==
    \E p \in Procs :
        /\ opts[p].Source = "./local/mod"
        /\ conf[p].Terraform # Nil
        /\ conf[p].Source = "git::https://example/mod.git?ref=v1"
        /\ src[p] = "./local/mod"

\* Something a cache hit asks for is missing from the download directory.
CacheLacks == ~fs.dl \/ ~fs.wd \/ fs.marker = NoFile \/ fs.tf = 0

\* C13: the oracle answers "latest code" only if the version file exists and
\* holds the fingerprint of the canonical URL, the download directory and
\* the working directory exist and the working directory holds at least one
\* *.tf file; with the version file or a directory missing, or with no
\* *.tf file, it never does, however its reads go.
C13_HitOnlyOnFullCache ==
    \A p \in Procs :
        Resolved(p) =>
            /\ \A io \in IoOutcomes :
                 /\ alreadyHaveLatestCode(TerraformSource(p), io).latest => CacheHolds(p)
                 /\ CacheLacks => ~alreadyHaveLatestCode(TerraformSource(p), io).latest
            /\ (JustChecked(p) /\ seen[p].latest) => (CacheHolds(p) /\ ~CacheLacks)
            /\ (JustChecked(p) /\ pc[p] = "overlay") => CacheHolds(p)

\* The version file holds the fingerprint of the source and both directories
\* are there, but no *.tf file: the oracle has asked for a download.
C13_Witness ==
    \E p \in Procs :
        /\ IsRemote(p) /\ JustChecked(p)
        /\ fs.dl /\ fs.wd /\ fs.marker = EncodeSourceVersion(Url(p)) /\ fs.tf = 0
        /\ seen[p] = Answer(FALSE, FALSE)
        /\ pc[p] = "before"

\* What the hook-wrapped download and the marker write can log.
DownloadEvents ==
    {"before", "beforeFailed", "get", "getFailed", "fetched", "fetchFailed",
     "after", "afterFailed"}

MarkerEvents == {"marker", "markerFailed"}

FetchFailures == {"beforeFailed", "getFailed", "fetchFailed", "afterFailed"}

InDownload == {"before", "get", "getting", "after"}

\* The oracle of p has answered that the code is the latest.
SkipPath(p) == Has(p, "check") /\ seen[p] = Answer(TRUE, FALSE)

\* On the skip path nothing of the download has run, the version file holds
\* what the oracle read, and the overlay is what comes next; when it has
\* succeeded the caller's working directory is the source's.
SkipPathState ==
    \A p \in Procs :
        SkipPath(p) =>
            /\ \A e \in DownloadEvents \cup MarkerEvents : ~Has(p, e)
            /\ clone[p] = NoClone
            /\ fs.marker = EncodeSourceVersion(Url(p))
            /\ pc[p] \in {"overlay", "done", "failed"}
            /\ pc[p] = "overlay" => LastEvent(p) = "check"
            /\ pc[p] = "done" =>
                 /\ LastEvent(p) = "overlay"
                 /\ fs.dl /\ fs.wd
                 /\ wdPtr[p] = TerraformSource(p).WorkingDir
            /\ pc[p] = "failed" => LastEvent(p) = "overlayFailed"

\* The steps of the skip path leave the version file as it is.
SkipPathStep ==
    \A p \in Procs :
        (pc[p] \in {"check", "overlay"} /\ SkipPath(p)') => fs'.marker = fs.marker

\* C14: when the oracle answers that the code is the latest, the acquisition
\* runs no download hook and no fetch backend and leaves the version file
\* unchanged; it goes to the overlay, and when the overlay has succeeded the
\* caller's working directory is the source's working directory.
C14_SkipPath == []SkipPathState /\ [][SkipPathStep]_vars

C14_Witness ==
    \E p \in Procs :
        /\ SkipPath(p) /\ pc[p] = "done"
        /\ LastEvent(p) = "overlay" /\ Len(events[p]) = 2
        /\ wdPtr[p] = TerraformSource(p).WorkingDir
        /\ fs.marker = EncodeSourceVersion(Url(p))

\* An acquisition whose hook-wrapped download has failed has returned: the
\* failure is the last thing it did, no marker write and no overlay have
\* followed, and the caller's working directory is untouched.
FetchFailureReturns ==
    \A p \in Procs :
        \A e \in FetchFailures :
            Has(p, e) =>
                /\ pc[p] = "failed"
                /\ prev = "fetch"
                /\ LastEvent(p) = e
                /\ \A m \in MarkerEvents \cup {"overlay", "overlayFailed"} : ~Has(p, m)
                /\ wdPtr[p] = OrigDir

\* No step of the hook-wrapped download touches the version file.
MarkerKeptByDownload ==
    \A p \in Procs : pc[p] \in InDownload => fs'.marker = fs.marker

\* C15: when the before hooks, the fetch backend or the after hooks fail,
\* the acquisition returns with that failure, writes no version file (the
\* file, there or not, is as it was when the download began) and runs no
\* overlay.
C15_FetchFailure == []FetchFailureReturns /\ [][MarkerKeptByDownload]_vars

\* The fetch backend has failed over a directory that held a version file:
\* the file is still there.
C15_Witness ==
    \E p \in Procs :
        /\ pc[p] = "failed" /\ LastEvent(p) = "fetchFailed"
        /\ fs.marker \in Fingerprints
        /\ fs.tree = "partial"

\* C16: when the write of the version file fails after a successful fetch,
\* the acquisition returns with that failure, the fetched tree stays in the
\* download directory, no overlay runs and the caller's working directory is
\* untouched; the acquisition that comes next takes the skip path only over
\* a version file holding the fingerprint of its URL and a completely
\* fetched tree, and reaches the overlay in no other way than by that or by
\* a fetch of its own.
C16_MarkerWriteFailure ==
    \A p \in Procs :
        /\ Has(p, "markerFailed") =>
             /\ pc[p] = "failed"
             /\ prev = "write"
             /\ LastEvent(p) = "markerFailed"
             /\ Has(p, "fetched") /\ Has(p, "after")
             /\ fs.dl /\ fs.tree = "complete"
             /\ wdPtr[p] = OrigDir
        /\ (Resolved(p) /\ after[p].prev = "write") =>
             /\ SkipPath(p) =>
                  /\ fs.marker = EncodeSourceVersion(Url(p))
                  /\ fs.tree = "complete"
             /\ (JustChecked(p) /\ ~seen[p].err /\ ~SkipPath(p)) => pc[p] = "before"
             /\ pc[p] \in {"overlay", "done"} => (SkipPath(p) \/ Has(p, "fetched"))

\* The write failed over a version file an earlier acquisition had left, and
\* the acquisition that came next has taken the skip path over the tree the
\* failed one had fetched.
C16_Witness ==
    \E p \in Procs :
        /\ Resolved(p) /\ after[p].prev = "write"
        /\ SkipPath(p) /\ pc[p] = "done"
        /\ fs.tree = "complete"

\* An acquisition whose os.RemoveAll has failed has returned, and the failed
\* removal is all it has done.
RemoveFailureReturns ==
    \A p \in Procs :
        Has(p, "removeAllFailed") =>
            /\ force[p]
            /\ pc[p] = "failed"
            /\ events[p] = <<"removeAllFailed">>
            /\ seen[p] = NoAnswer
            /\ clone[p] = NoClone
            /\ wdPtr[p] = OrigDir

\* os.RemoveAll writes no version file: the file is as it was, or gone.
RemoveWritesNoMarker ==
    \A p \in Procs : pc[p] = "invalidate" => fs'.marker \in {fs.marker, NoFile}

\* C17: when SourceUpdate is set and os.RemoveAll of the download directory
\* fails, the acquisition returns with that failure before the oracle is
\* consulted: no hook has run, no fetch backend was called, no version file
\* was written and no overlay was applied.
C17_RemoveAllFailure == []RemoveFailureReturns /\ [][RemoveWritesNoMarker]_vars

\* The removal has failed half way: the version file an earlier acquisition
\* wrote is still there, and the acquisition has returned.
C17_Witness ==
    \E p \in Procs :
        /\ force[p] /\ pc[p] = "failed"
        /\ events[p] = <<"removeAllFailed">>
        /\ fs.marker \in Fingerprints
        /\ fs.tree = "partial"

\* How often p has logged one of the events of es.
CountOf(p, es) == Cardinality({i \in DOMAIN events[p] : events[p][i] \in es})

\* C18: when the oracle fails, on the listing of the *.tf files or on the
\* read of the version file, the acquisition returns with that failure and
\* neither fetches, nor writes the version file, nor overlays; and in every
\* acquisition the before hooks, the fetch backend and the after hooks are
\* each called at most once, and only after the oracle has answered, without
\* error, that the code is not the latest.
C18_OracleFailure ==
    \A p \in Procs :
        /\ (Has(p, "check") /\ seen[p].err) =>
             /\ reads[p] \in {"globErr", "readErr"}
             /\ pc[p] = "failed"
             /\ LastEvent(p) = "check"
             /\ \A e \in DownloadEvents \cup MarkerEvents \cup {"overlay", "overlayFailed"} :
                  ~Has(p, e)
             /\ clone[p] = NoClone
             /\ wdPtr[p] = OrigDir
        /\ CountOf(p, {"before", "beforeFailed"}) <= 1
        /\ CountOf(p, {"get", "getFailed"}) <= 1
        /\ CountOf(p, {"after", "afterFailed"}) <= 1
        /\ CountOf(p, {"check"}) <= 1
        /\ (pc[p] \in InDownload \/ \E e \in DownloadEvents : Has(p, e)) =>
             /\ Has(p, "check")
             /\ seen[p] = Answer(FALSE, FALSE)

\* The read of the version file has failed over a full download directory,
\* and the acquisition has returned.
C18_Witness ==
    \E p \in Procs :
        /\ pc[p] = "failed" /\ LastEvent(p) = "check"
        /\ reads[p] = "readErr" /\ seen[p] = Answer(FALSE, TRUE)
        /\ fs.tf >= 1 /\ fs.marker \in Fingerprints

\* The step is one of acquisition p.
StepOf(p) == events'[p] # events[p]

\* An acquisition that has written the version file, or failed to, did so
\* right after its own after hooks, once; after a write that succeeded the
\* file holds the fingerprint of its URL.
MarkerWrittenAfterFetch ==
    \A p \in Procs :
        /\ CountOf(p, MarkerEvents) <= 1
        /\ \A m \in MarkerEvents :
             Has(p, m) =>
                /\ Has(p, "fetched") /\ Has(p, "after")
                /\ Index(p, "after") = Index(p, m) - 1
        /\ LastEvent(p) = "marker" => fs.marker = EncodeSourceVersion(Url(p))

\* A step that puts content into the version file is the write of an
\* acquisition whose after hooks have just succeeded, and the content of a
\* write that succeeds is the fingerprint of its URL.
MarkerWrittenByWriter ==
    fs'.marker \notin {fs.marker, NoFile} =>
        \E p \in Procs :
            /\ StepOf(p)
            /\ pc[p] = "write"
            /\ LastEvent(p) = "after" /\ Has(p, "fetched")
            /\ ~Has(p, "marker")
            /\ fs'.marker \in {EncodeSourceVersion(Url(p)), ""}
            /\ pc'[p] = "overlay" => fs'.marker = EncodeSourceVersion(Url(p))

\* The oracle and the return on its answer change nothing on disk; on the
\* skip path the version file and both directories are there before the
\* overlay and after it.
OracleReadsOnly ==
    \A p \in Procs :
        /\ (StepOf(p) /\ pc[p] = "check") => fs' = fs
        /\ (StepOf(p) /\ pc[p] = "overlay" /\ SkipPath(p)) =>
             /\ fs'.marker = fs.marker
             /\ fs.dl /\ fs.wd /\ fs'.dl /\ fs'.wd
             /\ fs'.tree = fs.tree

\* C19: the version file is written only by an acquisition whose own
\* hook-wrapped download has just succeeded, at most once in an acquisition,
\* and what is written is the fingerprint of that acquisition's canonical
\* URL; the oracle and the skip path neither create, nor change, nor delete
\* the version file, the download directory or the working directory.
C19_MarkerWrites ==
    /\ []MarkerWrittenAfterFetch
    /\ [][MarkerWrittenByWriter /\ OracleReadsOnly]_vars

\* A forced acquisition has removed the directory, fetched, and created the
\* version file.
C19_Witness ==
    \E p \in Procs :
        /\ force[p] /\ Has(p, "removeAll")
        /\ LastEvent(p) = "marker" /\ pc[p] = "overlay"
        /\ fs.marker = EncodeSourceVersion(Url(p))

====
